---- MODULE Spec2Model ----
(***************************************************************************)
(* A model of RottenTomatoesCLIRawPython.py: the RottenTomatoesAPI class   *)
(* (search_movie, get_movie_ratings) and main's selection loop.            *)
(*                                                                         *)
(* Text is modelled by TLA+ strings, read character by character with      *)
(* SubSeq.  The regular expressions of the source are transcribed as       *)
(* syntax trees and run by a backtracking matcher (M, Search, Sub) that    *)
(* orders its alternatives the way Python's re does.  A document is a      *)
(* sequence of markup fragments: the raw text the regular expressions      *)
(* read is its rendering, and the BeautifulSoup queries are answered from  *)
(* the fragments themselves.                                               *)
(***************************************************************************)
EXTENDS Integers, Sequences, FiniteSets, TLC

VARIABLES
    pc,              \* where the program is
    current_year,    \* the calendar year of the run
    status_code,     \* response.status_code of the last fetch
    listing,         \* the listing document of the last search
    search_results,  \* what search_movie returned
    extracted,       \* whether the last call went past its status check
    last_input,      \* what input() returned at the last prompt
    prompts,         \* how many times main prompted for a selection
    selection,       \* main's selection variable
    fetched,         \* the urls get_movie_ratings was called with
    detail,          \* the detail document of the last fetch
    movie_details,   \* what get_movie_ratings returned
    debug_info,      \* what get_movie_ratings noted about the consensus
    norm_in,         \* a text handed to the consensus cleanup
    norm_out         \* the cleanup's result

vars == <<pc, current_year, status_code, listing, search_results, extracted,
          last_input, prompts, selection, fetched, detail, movie_details,
          debug_info, norm_in, norm_out>>

(***************************************************************************)
(* Characters and Python's str methods                                     *)
(***************************************************************************)
Ch(s, i) == SubSeq(s, i, i)

DigitChars == {"0", "1", "2", "3", "4", "5", "6", "7", "8", "9"}

SpaceChars == {" ", "\t", "\n", "\r", "\f"}

UpperChars == {"A", "B", "C", "D", "E", "F", "G", "H", "I", "J", "K", "L", "M",
               "N", "O", "P", "Q", "R", "S", "T", "U", "V", "W", "X", "Y", "Z"}

LowerChars == {"a", "b", "c", "d", "e", "f", "g", "h", "i", "j", "k", "l", "m",
               "n", "o", "p", "q", "r", "s", "t", "u", "v", "w", "x", "y", "z"}

WordChars == UpperChars \cup LowerChars \cup DigitChars \cup {"_"}

LowerOf ==
    "A" :> "a" @@ "B" :> "b" @@ "C" :> "c" @@ "D" :> "d" @@ "E" :> "e" @@
    "F" :> "f" @@ "G" :> "g" @@ "H" :> "h" @@ "I" :> "i" @@ "J" :> "j" @@
    "K" :> "k" @@ "L" :> "l" @@ "M" :> "m" @@ "N" :> "n" @@ "O" :> "o" @@
    "P" :> "p" @@ "Q" :> "q" @@ "R" :> "r" @@ "S" :> "s" @@ "T" :> "t" @@
    "U" :> "u" @@ "V" :> "v" @@ "W" :> "w" @@ "X" :> "x" @@ "Y" :> "y" @@
    "Z" :> "z"

LowerCh(c) == IF c \in UpperChars THEN LowerOf[c] ELSE c

\* str.lower(), of the characters a..b of s (halving keeps the recursion
\* shallow)
RECURSIVE LowerOfRange(_, _, _)
LowerOfRange(s, a, b) ==
    IF a > b THEN ""
    ELSE IF a = b THEN LowerCh(Ch(s, a))
    ELSE LowerOfRange(s, a, (a + b) \div 2) \o LowerOfRange(s, (a + b) \div 2 + 1, b)

Lower(s) == LowerOfRange(s, 1, Len(s))

\* the least element of S for which P holds is written
\*   CHOOSE j \in S : P(j) /\ \A k \in S : k < j => ~P(k)

\* The first index >= i at which sub occurs in s, 0 when there is none.
FindFrom(s, sub, i) ==
    LET last == Len(s) - Len(sub) + 1
        At(j) == SubSeq(s, j, j + Len(sub) - 1) = sub
    IN  IF \A j \in i..last : ~At(j) THEN 0
        ELSE CHOOSE j \in i..last : At(j) /\ \A k \in i..(j - 1) : ~At(k)

\* sub in s
Contains(s, sub) == FindFrom(s, sub, 1) # 0

\* s.startswith(prefix)
StartsWith(s, prefix) ==
    Len(prefix) <= Len(s) /\ SubSeq(s, 1, Len(prefix)) = prefix

RECURSIVE FirstNonSpace(_, _)
FirstNonSpace(s, i) ==
    IF i > Len(s) \/ Ch(s, i) \notin SpaceChars THEN i ELSE FirstNonSpace(s, i + 1)

RECURSIVE LastNonSpace(_, _)
LastNonSpace(s, i) ==
    IF i < 1 \/ Ch(s, i) \notin SpaceChars THEN i ELSE LastNonSpace(s, i - 1)

\* str.strip()
Strip(s) == SubSeq(s, FirstNonSpace(s, 1), LastNonSpace(s, Len(s)))

\* str.replace(old, new)
RECURSIVE ReplaceFrom(_, _, _, _)
ReplaceFrom(s, old, new, i) ==
    LET Rest(j) ==
          IF j = 0 THEN SubSeq(s, i, Len(s))
          ELSE SubSeq(s, i, j - 1) \o new \o ReplaceFrom(s, old, new, j + Len(old))
    IN  Rest(FindFrom(s, old, i))

Replace(s, old, new) == ReplaceFrom(s, old, new, 1)

(***************************************************************************)
(* Regular expressions (Python's re): syntax trees and a backtracking      *)
(* matcher.  M returns the ways a tree matches s from position i, in the   *)
(* order backtracking tries them: the first one is re's match.             *)
(***************************************************************************)
Lit(str) == [t |-> "lit", s |-> str]

\* {min,max} repetitions of one character of a class; max = -1: unbounded
Rep(neg, set, min, max, lazy) ==
    [t |-> "rep", neg |-> neg, set |-> set, min |-> min, max |-> max, lazy |-> lazy]

Cat(xs) == [t |-> "cat", xs |-> xs]

Alt(xs) == [t |-> "alt", xs |-> xs]

Opt(x) == [t |-> "opt", x |-> x]

Group1(x) == [t |-> "cap", x |-> x]

Eos == [t |-> "eos"]

Bos == [t |-> "bos"]

WordB == [t |-> "wb"]

InClass(c, neg, set) == IF neg THEN c \notin set ELSE c \in set

\* how many characters of the class follow one another from position i
\* on, cap at most
RunLen(s, i, neg, set, cap) ==
    LET limit == IF i + cap - 1 < Len(s) THEN i + cap - 1 ELSE Len(s)
        Stop(j) == j > limit \/ ~InClass(Ch(s, j), neg, set)
    IN  (CHOOSE j \in i..(limit + 1) : Stop(j) /\ \A k \in i..(j - 1) : ~Stop(k)) - i

IsWordAt(s, i) == i >= 1 /\ i <= Len(s) /\ Ch(s, i) \in WordChars

RECURSIVE M(_, _, _, _)
RECURSIVE MCat(_, _, _, _)
RECURSIVE MEach(_, _, _, _, _)
RECURSIVE Starts(_, _, _)
RECURSIVE MAlt(_, _, _, _, _)

M(re, s, i, c) ==
    CASE re.t = "lit" ->
           IF i + Len(re.s) - 1 <= Len(s) /\ SubSeq(s, i, i + Len(re.s) - 1) = re.s
           THEN <<[e |-> i + Len(re.s), c |-> c]>>
           ELSE <<>>
      [] re.t = "rep" ->
           LET Ways(run) ==
                 IF run < re.min THEN <<>>
                 ELSE [k \in 1..(run - re.min + 1) |->
                          [e |-> IF re.lazy THEN i + re.min + (k - 1)
                                 ELSE i + run - (k - 1),
                           c |-> c]]
           IN  Ways(RunLen(s, i, re.neg, re.set, IF re.max < 0 THEN Len(s) ELSE re.max))
      [] re.t = "cat" -> MCat(re.xs, 1, s, <<[e |-> i, c |-> c]>>)
      [] re.t = "alt" -> MAlt(re.xs, 1, s, i, c)
      [] re.t = "opt" -> M(re.x, s, i, c) \o <<[e |-> i, c |-> c]>>
      [] re.t = "cap" ->
           LET Captured(rs) == [k \in 1..Len(rs) |-> [e |-> rs[k].e, c |-> <<i, rs[k].e>>]]
           IN  Captured(M(re.x, s, i, c))
      [] re.t = "eos" ->
           IF i = Len(s) + 1 \/ (i = Len(s) /\ Ch(s, i) = "\n")
           THEN <<[e |-> i, c |-> c]>> ELSE <<>>
      [] re.t = "bos" -> IF i = 1 THEN <<[e |-> i, c |-> c]>> ELSE <<>>
      [] re.t = "wb" ->
           IF IsWordAt(s, i - 1) # IsWordAt(s, i)
           THEN <<[e |-> i, c |-> c]>> ELSE <<>>

\* the k-th and later elements of a concatenation, from each way rs reached
MCat(xs, k, s, rs) ==
    IF k > Len(xs) \/ rs = <<>> THEN rs
    ELSE MCat(xs, k + 1, s, MEach(xs[k], s, rs, 1, Len(rs)))

\* x from each of the ways rs[a..b], in their order (halving keeps the
\* recursion shallow)
MEach(x, s, rs, a, b) ==
    IF a > b THEN <<>>
    ELSE IF a = b THEN M(x, s, rs[a].e, rs[a].c)
    ELSE MEach(x, s, rs, a, (a + b) \div 2) \o MEach(x, s, rs, (a + b) \div 2 + 1, b)

MAlt(xs, k, s, i, c) ==
    IF k > Len(xs) THEN <<>>
    ELSE M(xs[k], s, i, c) \o MAlt(xs, k + 1, s, i, c)

\* whether the text at position i begins the way the tree begins: what a
\* match at i needs, tested before M is run there
Starts(re, s, i) ==
    CASE re.t = "lit" ->
           i + Len(re.s) - 1 <= Len(s) /\ SubSeq(s, i, i + Len(re.s) - 1) = re.s
      [] re.t = "cat" -> Starts(re.xs[1], s, i)
      [] re.t = "alt" -> \E k \in 1..Len(re.xs) : Starts(re.xs[k], s, i)
      [] re.t = "cap" -> Starts(re.x, s, i)
      [] OTHER -> TRUE

NoMatch == [ok |-> FALSE, start |-> 0, end |-> 0, g1 |-> ""]

\* re.search(re, s) from position i on, s being the text the tree is
\* matched on and orig the text the group is cut from (s itself, or the
\* text s is the lower case of under re.IGNORECASE): the leftmost position
\* the tree matches at, and the first way it matches there
SearchFrom(re, s, orig, i) ==
    LET Match(start, first) ==
          [ok |-> TRUE, start |-> start, end |-> first.e,
           g1 |-> IF first.c = <<0, 0>> THEN ""
                  ELSE SubSeq(orig, first.c[1], first.c[2] - 1)]
        At(start) == Match(start, M(re, s, start, <<0, 0>>)[1])
        Leftmost(hits) ==
          IF hits = {} THEN NoMatch
          ELSE At(CHOOSE j \in hits : \A k \in hits : j <= k)
    IN  Leftmost({j \in i..(Len(s) + 1) :
                    Starts(re, s, j) /\ M(re, s, j, <<0, 0>>) # <<>>})

\* re.search(pattern, s)
Search(re, s) == SearchFrom(re, s, s, 1)

\* re.search(pattern, s, re.IGNORECASE), the tree's literals in lower case
SearchI(re, s) == SearchFrom(re, Lower(s), s, 1)

\* re.sub(pattern, repl, s) for a pattern that matches no empty text
RECURSIVE SubFrom(_, _, _, _)
SubFrom(re, repl, s, i) ==
    LET Rest(m) ==
          IF ~m.ok THEN SubSeq(s, i, Len(s))
          ELSE SubSeq(s, i, m.start - 1) \o repl \o SubFrom(re, repl, s, m.end)
    IN  IF i > Len(s) THEN "" ELSE Rest(SearchFrom(re, s, s, i))

Sub(re, repl, s) == SubFrom(re, repl, s, 1)

(***************************************************************************)
(* Listing documents.  A container is one repeated item of the search      *)
(* page, given by what the structural queries of search_movie find in it:  *)
(*   sel         the item selector that matches it ("none": no selector)   *)
(*   anchor      <<>>: no <a> element; <<h>>: its first <a>, h being <<>>  *)
(*               (no href attribute) or <<href>>                           *)
(*   slot_title  <<>> or <<text>>: the text of its [slot="title"] element  *)
(*   class_title <<>> or <<text>>: the text of its .movieTitle element     *)
(*   slot_year   <<>> or <<text>>: the text of its [slot="year"] element   *)
(*   class_year  <<>> or <<text>>: the text of its .movieYear element      *)
(*   extra       free text at its end                                      *)
(* ItemHtml renders it: str(item).  The title and year elements are        *)
(* <span>s and direct children of the container, so title_elem.parent is   *)
(* the container, which has no href.                                       *)
(***************************************************************************)
Container(sel, anchor, st, ct, sy, cy, extra) ==
    [sel |-> sel, anchor |-> anchor, slot_title |-> st, class_title |-> ct,
     slot_year |-> sy, class_year |-> cy, extra |-> extra]

OpenTag(sel) ==
    CASE sel = "search-page-media-row" -> "<search-page-media-row>"
      [] sel = ".findify-components--cards__inner" ->
           "<div class=\"findify-components--cards__inner\">"
      [] sel = ".js-tile-link" -> "<div class=\"js-tile-link\">"
      [] sel = ".search__results .poster" -> "<div class=\"poster\">"
      [] OTHER -> "<div class=\"ad\">"

CloseTag(sel) ==
    IF sel = "search-page-media-row" THEN "</search-page-media-row>" ELSE "</div>"

Elem(open, opt) == IF opt = <<>> THEN "" ELSE open \o opt[1] \o "</span>"

\* str(item)
ItemHtml(item) ==
    OpenTag(item.sel)
    \o (IF item.anchor = <<>> THEN ""
        ELSE IF item.anchor[1] = <<>> THEN "<a><img/></a>"
        ELSE "<a href=\"" \o item.anchor[1][1] \o "\"><img/></a>")
    \o Elem("<span slot=\"title\">", item.slot_title)
    \o Elem("<span class=\"movieTitle\">", item.class_title)
    \o Elem("<span slot=\"year\">", item.slot_year)
    \o Elem("<span class=\"movieYear\">", item.class_year)
    \o item.extra
    \o CloseTag(item.sel)

\* soup.select(selector): the containers it matches, in document order
RECURSIVE Select(_, _)
Select(doc, sel) ==
    IF doc = <<>> THEN <<>>
    ELSE (IF Head(doc).sel = sel THEN <<Head(doc)>> ELSE <<>>) \o Select(Tail(doc), sel)

base_url == "https://www.rottentomatoes.com"

Digit4 == Rep(FALSE, DigitChars, 4, 4, FALSE)

\* r'(\b(?:19|20)\d{2}\b)'
ItemYearRe ==
    Group1(Cat(<<WordB, Alt(<<Lit("19"), Lit("20")>>),
                 Rep(FALSE, DigitChars, 2, 2, FALSE), WordB>>))

\* r'/m/[^/]*_(\d{4})(?:/|$)'
UrlYearRe ==
    Cat(<<Lit("/m/"), Rep(TRUE, {"/"}, 0, -1, FALSE), Lit("_"), Group1(Digit4),
          Alt(<<Lit("/"), Eos>>)>>)

\* r'\((\d{4})\)$'
TitleYearRe == Cat(<<Lit("("), Group1(Digit4), Lit(")"), Eos>>)

\* item.select_one('[slot="title"]') or item.select_one('.movieTitle')
TitleElem(item) ==
    IF item.slot_title # <<>> THEN item.slot_title ELSE item.class_title

\* item.select_one('[slot="year"]') or item.select_one('.movieYear')
YearElem(item) ==
    IF item.slot_year # <<>> THEN item.slot_year ELSE item.class_year

\* url_elem.get('href', ''), url_elem being item.select_one('a') or
\* title_elem.parent
ItemHref(item) ==
    IF item.anchor # <<>> /\ item.anchor[1] # <<>> THEN item.anchor[1][1] ELSE ""

\* lines 61-63
ItemUrl(item) ==
    LET url == ItemHref(item) IN
    IF url # "" /\ ~StartsWith(url, "http") THEN base_url \o url ELSE url

\* lines 65-92
ItemYear(item, title, url) ==
    LET Method4(year, m) == IF year = "N/A" /\ m.ok THEN m.g1 ELSE year
        Method3(year, m) ==
          Method4(IF year = "N/A" /\ Contains(url, "/m/") /\ m.ok THEN m.g1 ELSE year,
                  Search(TitleYearRe, title))
        Method2(year, m) ==
          Method3(IF year = "N/A" /\ m.ok THEN m.g1 ELSE year, Search(UrlYearRe, url))
    IN  Method2(IF YearElem(item) # <<>> THEN Strip(YearElem(item)[1]) ELSE "N/A",
                Search(ItemYearRe, ItemHtml(item)))

\* one pass of the loop body, lines 48-101: the records it appends
ItemRecords(item) ==
    LET Record(title, url) ==
          <<[title |-> title, year |-> ItemYear(item, title, url), url |-> url]>>
    IN  IF TitleElem(item) = <<>> THEN <<>>
        ELSE Record(Strip(TitleElem(item)[1]), ItemUrl(item))

RECURSIVE ForItems(_)
ForItems(items) ==
    IF items = <<>> THEN <<>>
    ELSE ItemRecords(Head(items)) \o ForItems(Tail(items))

\* the patterns tried from the last to the first
MovieItemsLastFirst(doc) ==
    LET m1 == Select(doc, "search-page-media-row")
        m2 == Select(doc, ".findify-components--cards__inner")
        m3 == Select(doc, ".js-tile-link")
        m4 == Select(doc, ".search__results .poster")
    IN  IF m4 # <<>> THEN m4
        ELSE IF m3 # <<>> THEN m3
        ELSE IF m2 # <<>> THEN m2 ELSE m1

\* lines 30-41
MovieItems(doc) ==
    LET m1 == Select(doc, "search-page-media-row")
        m2 == Select(doc, ".findify-components--cards__inner")
        m3 == Select(doc, ".js-tile-link")
        m4 == Select(doc, ".search__results .poster")
    IN  IF m1 # <<>> THEN m1
        ELSE IF m2 # <<>> THEN m2
        ELSE IF m3 # <<>> THEN m3 ELSE m4

\* search_movie, given the response of requests.get
search_movie(status, doc) ==
    IF status # 200 THEN <<>> ELSE ForItems(MovieItems(doc))

(***************************************************************************)
(* Detail documents.  A fragment is one line of markup, [kind, val]: val   *)
(* is the text the line carries, Markup its raw text.  html_content is     *)
(* the fragments' lines in order; the parsed tree holds one element per    *)
(* fragment (ElemTag, ElemClass, ElemQa), whose content is val.            *)
(***************************************************************************)
Frag(kind, val) == [kind |-> kind, val |-> val]

LdJson(body) == "<script type=\"application/ld+json\">{" \o body \o "}</script>"

Markup(f) ==
    CASE f.kind = "og_title" ->
           "<meta property=\"og:title\" content=\"" \o f.val \o " | Rotten Tomatoes\">"
      [] f.kind = "ld_movie" -> LdJson("\"@type\":\"Movie\",\"name\":\"" \o f.val \o "\"")
      [] f.kind = "title_tag" -> "<title>" \o f.val \o " | Rotten Tomatoes</title>"
      [] f.kind = "ld_rating" ->
           LdJson("\"aggregateRating\":{\"ratingValue\":\"" \o f.val \o "\"}")
      [] f.kind = "js_tomatometer" -> "<script>{\"tomatometer\":" \o f.val \o "}</script>"
      [] f.kind = "qa_tomatometer" ->
           "<span data-qa=\"tomatometer\">" \o f.val \o "%</span>"
      [] f.kind = "ld_audience" -> LdJson("\"audienceScore\":\"" \o f.val \o "\"")
      [] f.kind = "score_board" ->
           "<score-board audiencescore=\"" \o f.val \o "\"></score-board>"
      [] f.kind = "popcorn" -> "<span class=\"popcornmeter\">" \o f.val \o "%</span>"
      [] f.kind = "aud_text" -> "<span>Audience says " \o f.val \o "%</span>"
      [] f.kind = "ld_date" -> LdJson("\"dateCreated\":\"" \o f.val \o "-06-20\"")
      [] f.kind = "release_info" -> "<span>Released " \o f.val \o "</span>"
      [] f.kind = "film_info" -> "<span>A film of " \o f.val \o "</span>"
      [] f.kind = "copyright" -> "<span>Copyright " \o f.val \o "</span>"
      [] f.kind = "qa_span" ->
           "<span data-qa=\"critics-consensus\">" \o f.val \o "</span>"
      [] f.kind = "p_consensus" -> "<p class=\"consensus\">" \o f.val \o "</p>"
      [] f.kind = "ld_review" -> LdJson("\"reviewBody\": \"" \o f.val \o "\"")
      [] f.kind = "div_box" ->
           "<div class=\"critics-consensus-box\">" \o f.val \o "</div>"
      [] f.kind = "p_plain" -> "<p>" \o f.val \o "</p>"

ElemTag(f) ==
    CASE f.kind \in {"p_consensus", "p_plain"} -> "p"
      [] f.kind = "div_box" -> "div"
      [] f.kind = "og_title" -> "meta"
      [] f.kind = "title_tag" -> "title"
      [] f.kind = "score_board" -> "score-board"
      [] f.kind \in {"ld_movie", "ld_rating", "js_tomatometer", "ld_audience",
                     "ld_date", "ld_review"} -> "script"
      [] OTHER -> "span"

ElemClass(f) ==
    CASE f.kind = "p_consensus" -> "consensus"
      [] f.kind = "div_box" -> "critics-consensus-box"
      [] f.kind = "popcorn" -> "popcornmeter"
      [] OTHER -> ""

ElemQa(f) ==
    CASE f.kind = "qa_span" -> "critics-consensus"
      [] f.kind = "qa_tomatometer" -> "tomatometer"
      [] OTHER -> ""

\* response.text
RECURSIVE HtmlContent(_)
HtmlContent(doc) ==
    IF doc = <<>> THEN "" ELSE Markup(Head(doc)) \o "\n" \o HtmlContent(Tail(doc))

\* whether a CSS selector of consensus_selectors matches the element
SelectorMatches(selector, f) ==
    CASE selector = "[data-qa=\"critics-consensus\"]" -> ElemQa(f) = "critics-consensus"
      [] selector = "p.consensus" -> ElemTag(f) = "p" /\ ElemClass(f) = "consensus"
      [] OTHER -> ElemClass(f) # "" /\ "." \o ElemClass(f) = selector

\* soup.select_one(selector): <<>> or <<element>>
RECURSIVE select_one(_, _)
select_one(doc, selector) ==
    IF doc = <<>> THEN <<>>
    ELSE IF SelectorMatches(selector, Head(doc)) THEN <<Head(doc)>>
    ELSE select_one(Tail(doc), selector)

\* soup.find_all('p')
RECURSIVE find_all_p(_)
find_all_p(doc) ==
    IF doc = <<>> THEN <<>>
    ELSE (IF ElemTag(Head(doc)) = "p" THEN <<Head(doc)>> ELSE <<>>)
         \o find_all_p(Tail(doc))

\* elem.get_text(strip=True) of an element whose content is inner: the
\* pieces of text between its tags, each stripped, joined
RECURSIVE TextPieces(_, _)
TextPieces(inner, i) ==
    LET lt == FindFrom(inner, "<", i)
        gt == IF lt = 0 THEN 0 ELSE FindFrom(inner, ">", lt)
    IN  IF lt = 0 \/ gt = 0 THEN Strip(SubSeq(inner, i, Len(inner)))
        ELSE Strip(SubSeq(inner, i, lt - 1)) \o TextPieces(inner, gt + 1)

get_text(f) == TextPieces(f.val, 1)

(***************************************************************************)
(* The patterns of get_movie_ratings.  Those searched with re.IGNORECASE   *)
(* are written in lower case and run on the lower case of the text.        *)
(***************************************************************************)
Quote == "\""

Star(neg, set) == Rep(neg, set, 0, -1, FALSE)

Plus(neg, set) == Rep(neg, set, 1, -1, FALSE)

Maybe(set) == Rep(FALSE, set, 0, 1, FALSE)

Spaces0 == Star(FALSE, SpaceChars)

Spaces1 == Plus(FALSE, SpaceChars)

Digits1 == Plus(FALSE, DigitChars)

\* .*? without and with re.DOTALL
DotLazy == Rep(TRUE, {"\n"}, 0, -1, TRUE)

AnyLazy == Rep(TRUE, {}, 0, -1, TRUE)

QuoteOpt == Maybe({Quote, "'"})

Century == Cat(<<Alt(<<Lit("19"), Lit("20")>>), Rep(FALSE, DigitChars, 2, 2, FALSE)>>)

\* ([^|]+)(?:\s*\|)?
UpToBar == <<Group1(Plus(TRUE, {"|"})), Opt(Cat(<<Spaces0, Lit("|")>>))>>

\* line 134
title_pattern == Cat(<<Lit("<meta property=\"og:title\" content=\"")>> \o UpToBar)

\* line 142, re.DOTALL
schema_pattern ==
    Cat(<<Lit("\"@type\":\"Movie\""), AnyLazy, Lit("\"name\":\""),
          Group1(Plus(TRUE, {Quote})), Lit(Quote)>>)

\* line 149
title_tag_pattern == Cat(<<Lit("<title>")>> \o UpToBar)

\* line 156, re.DOTALL
critic_pattern1 ==
    Cat(<<Lit("\"aggregateRating\""), AnyLazy, Lit("\"ratingValue\":"),
          Maybe({Quote}), Group1(Digits1), Maybe({Quote})>>)

\* lines 164-168, re.IGNORECASE
critic_patterns ==
    << Cat(<<Alt(<<Lit("tomatometer"), Lit("score")>>), QuoteOpt, Spaces0, Lit(":"),
             Spaces0, QuoteOpt, Group1(Digits1), QuoteOpt>>),
       Cat(<<Alt(<<Lit("critic"), Lit("tomatometer")>>), DotLazy,
             Group1(Rep(FALSE, DigitChars, 1, 3, FALSE)), Lit("%")>>),
       Cat(<<Lit("data-qa=\"tomatometer\""), Star(TRUE, {">"}), Lit(">"),
             Group1(Digits1), Lit("%")>>) >>

\* line 179
audience_json_pattern ==
    Cat(<<Lit("\"audience"), Rep(FALSE, {"s", "S"}, 1, 1, FALSE), Lit("core\":"),
          Spaces0, Maybe({Quote}), Group1(Digits1), Maybe({Quote})>>)

\* line 187
scoreboard_pattern ==
    Cat(<<Lit("<score-board"), Star(TRUE, {">"}), Lit("audiencescore=\""),
          Group1(Digits1), Lit(Quote)>>)

Percent(name) ==
    Cat(<<Lit(name), Star(TRUE, {">"}), Lit(">"), Group1(Digits1), Lit("%")>>)

\* lines 195-199, re.IGNORECASE
popcorn_patterns ==
    << Percent("popcornmeter"), Percent("popcornscore"), Percent("audience-score") >>

\* lines 210-217, re.IGNORECASE
audience_patterns ==
    << Cat(<<Lit("audiencescore"), QuoteOpt, Spaces0, Lit(":"), Spaces0, QuoteOpt,
             Group1(Digits1), QuoteOpt>>),
       Cat(<<Lit("audience"), Rep(TRUE, {"%", "<", ">"}, 0, -1, TRUE),
             Group1(Rep(FALSE, DigitChars, 1, 3, FALSE)), Lit("%")>>),
       Percent("data-qa=\"audience-score\""),
       Cat(<<Lit("\"audiencescore\":\""), Group1(Digits1), Lit(Quote)>>),
       Cat(<<Lit("<span class=\"audience-score\">"), Group1(Digits1),
             Lit("%</span>")>>) >>

NotTagOrDigit == {"<", ">"} \cup DigitChars

\* lines 227-231, re.IGNORECASE
year_patterns ==
    << Cat(<<Alt(<<Lit("datecreated"), Lit("release")>>), QuoteOpt, Spaces0, Lit(":"),
             Spaces0, QuoteOpt, Rep(TRUE, {Quote, "'"}, 0, -1, TRUE),
             Group1(Rep(FALSE, DigitChars, 4, 4, FALSE))>>),
       Cat(<<Alt(<<Lit("release"), Lit("released"), Lit("year")>>),
             Rep(TRUE, NotTagOrDigit, 1, 20, FALSE), Group1(Century)>>),
       Cat(<<Alt(<<Lit("movie"), Lit("film")>>),
             Rep(TRUE, NotTagOrDigit, 1, 30, FALSE), Group1(Century)>>) >>

\* line 242
year_fallback_pattern == Group1(Century)

\* lines 252-259
consensus_selectors ==
    << "[data-qa=\"critics-consensus\"]", ".criticsconsensus", ".critic_consensus",
       ".what-to-know__consensus", ".consensus", "p.consensus" >>

\* line 275
schema_consensus_pattern ==
    Cat(<<Lit("\"reviewBody\":"), Spaces0, Lit(Quote),
          Group1(Rep(TRUE, {Quote}, 20, -1, FALSE)), Lit(Quote)>>)

\* <tag\s+attr="[^"]*word[^"]*"[^>]*>(.*?)</tag>
Marker(open, word, close) ==
    Cat(<<Lit(open), Star(TRUE, {Quote}), Lit(word), Star(TRUE, {Quote}), Lit(Quote),
          Star(TRUE, {">"}), Lit(">"), Group1(AnyLazy), Lit(close)>>)

\* lines 284-291, re.IGNORECASE | re.DOTALL
consensus_markers ==
    << Cat(<<Lit("<p"), Spaces1>> \o Marker("class=\"", "critic_consensus", "</p>").xs),
       Cat(<<Lit("<span"), Spaces1, Lit("data-qa=\"critics-consensus\""),
             Star(TRUE, {">"}), Lit(">"), Group1(AnyLazy), Lit("</span>")>>),
       Cat(<<Lit("<div"), Spaces1>> \o Marker("class=\"", "consensus", "</div>").xs),
       Cat(<<Lit("data-qa=\"critics-consensus\""), Star(TRUE, {">"}), Lit(">"),
             Group1(AnyLazy), Lit("</span>")>>),
       Cat(<<Lit("<p"), Spaces1, Lit("class=\"consensus\""), Star(TRUE, {">"}),
             Lit(">"), Group1(AnyLazy), Lit("</p>")>>) >>

\* (.*?)(?:</p>|</div>|<br|$)
UpToBlockEnd ==
    <<Group1(AnyLazy), Alt(<<Lit("</p>"), Lit("</div>"), Lit("<br"), Eos>>)>>

\* lines 309-312, re.IGNORECASE | re.DOTALL
explicit_patterns ==
    << Cat(<<Lit("critics"), Spaces1, Lit("consensus:"), Spaces0>> \o UpToBlockEnd),
       Cat(<<Lit("consensus:"), Spaces0>> \o UpToBlockEnd) >>

\* r'<[^>]+>', lines 298 and 319
TagRe == Cat(<<Lit("<"), Plus(TRUE, {">"}), Lit(">")>>)

\* r'<[^>]*>', line 352
AnyTagRe == Cat(<<Lit("<"), Star(TRUE, {">"}), Lit(">")>>)

\* r'\s+'
SpacesRe == Spaces1

\* r'^Critics\s+Consensus:?\s*', re.IGNORECASE, line 348
prefix_pattern ==
    Cat(<<Bos, Lit("critics"), Spaces1, Lit("consensus"), Maybe({":"}), Spaces0>>)

(***************************************************************************)
(* get_movie_ratings                                                       *)
(***************************************************************************)
\* the first pattern of ps, from the k-th on, that re.search finds in the
\* text (low: the text the trees run on): its group 1, else <<>>
RECURSIVE FirstPattern(_, _, _, _)
FirstPattern(ps, k, low, html) ==
    LET Take(m) == IF m.ok THEN <<m.g1>> ELSE FirstPattern(ps, k + 1, low, html)
    IN  IF k > Len(ps) THEN <<>> ELSE Take(SearchFrom(ps[k], low, html, 1))

\* lines 133-152
ExtractTitle(html) ==
    LET FromTitleTag(title_tag_match) ==
          IF title_tag_match.ok THEN Strip(title_tag_match.g1) ELSE "Unknown Title"
        FromSchemaName(schema_match) ==
          IF schema_match.ok THEN schema_match.g1
          ELSE FromTitleTag(Search(title_tag_pattern, html))
        Alternate(title) ==
          IF title = "Unknown Title" THEN FromSchemaName(Search(schema_pattern, html))
          ELSE title
        FromMeta(title_match) ==
          Alternate(IF title_match.ok THEN Strip(title_match.g1) ELSE "Unknown Title")
    IN  FromMeta(Search(title_pattern, html))

\* group 1 of a match, <<>> without a match
GroupOf(m) == IF m.ok THEN <<m.g1>> ELSE <<>>

\* "if x == 'N/A'": the value kept, or what the next method found
IfStillNA(value, found) == IF value = "N/A" /\ found # <<>> THEN found[1] ELSE value

\* lines 154-175
ExtractCriticScore(html, low) ==
    IfStillNA(IfStillNA("N/A", GroupOf(Search(critic_pattern1, html))),
              FirstPattern(critic_patterns, 1, low, html))

\* lines 177-224
ExtractAudienceScore(html, low) ==
    IfStillNA(IfStillNA(IfStillNA(IfStillNA("N/A",
                                            GroupOf(Search(audience_json_pattern, html))),
                                  GroupOf(Search(scoreboard_pattern, html))),
                        FirstPattern(popcorn_patterns, 1, low, html)),
              FirstPattern(audience_patterns, 1, low, html))

FallbackWindow == 5000

\* lines 226-245
ExtractYear(html, low) ==
    IfStillNA(IfStillNA("N/A", FirstPattern(year_patterns, 1, low, html)),
              GroupOf(Search(year_fallback_pattern,
                             SubSeq(html, 1, IF Len(html) < FallbackWindow THEN Len(html)
                                             ELSE FallbackWindow))))

MinConsensusLen == 20

MinParagraphLen == 30

MaxParagraphLen == 500

Consensus(text, found, source) == [text |-> text, found |-> found, source |-> source]

\* lines 261-270: Method 1, from the k-th selector on
RECURSIVE FromSelectors(_, _, _)
FromSelectors(doc, k, c) ==
    LET Take(consensus_elem) ==
          IF consensus_elem # <<>> /\ Len(get_text(consensus_elem[1])) > MinConsensusLen
          THEN Consensus(get_text(consensus_elem[1]), TRUE, "consensus_from_selector")
          ELSE FromSelectors(doc, k + 1, c)
    IN  IF k > Len(consensus_selectors) THEN c
        ELSE Take(select_one(doc, consensus_selectors[k]))

\* lines 273-280: Method 2
FromSchema(html, c) ==
    LET Take(schema_match) ==
          IF schema_match.ok
          THEN Consensus(Strip(schema_match.g1), TRUE, "consensus_from_schema_data")
          ELSE c
    IN  IF c.found THEN c ELSE Take(Search(schema_consensus_pattern, html))

\* lines 298-299 and 319-320
StripTags(text) == Strip(Sub(SpacesRe, " ", Sub(TagRe, " ", text)))

\* lines 293-305: Method 3, from the k-th marker on
RECURSIVE FromMarkers(_, _, _, _)
FromMarkers(html, low, k, c) ==
    LET Check(potential_consensus) ==
          IF Len(potential_consensus) > MinConsensusLen
             /\ ~Contains(potential_consensus, "class=")
          THEN Consensus(potential_consensus, TRUE, "consensus_from_marker")
          ELSE FromMarkers(html, low, k + 1, c)
        Take(match) ==
          IF match.ok THEN Check(StripTags(Strip(match.g1)))
          ELSE FromMarkers(html, low, k + 1, c)
    IN  IF k > Len(consensus_markers) THEN c
        ELSE Take(SearchFrom(consensus_markers[k], low, html, 1))

\* lines 314-325: Method 4, from the k-th pattern on; consensus_text is
\* assigned at line 317, before the candidate is checked
RECURSIVE FromExplicit(_, _, _, _)
FromExplicit(html, low, k, c) ==
    LET Check(consensus_text) ==
          IF Len(consensus_text) > MinConsensusLen /\ ~Contains(consensus_text, "class=")
          THEN Consensus(consensus_text, TRUE, "consensus_from_explicit")
          ELSE FromExplicit(html, low, k + 1, Consensus(consensus_text, FALSE, c.source))
        Take(match) ==
          IF match.ok THEN Check(StripTags(Strip(match.g1)))
          ELSE FromExplicit(html, low, k + 1, c)
    IN  IF k > Len(explicit_patterns) THEN c
        ELSE Take(SearchFrom(explicit_patterns[k], low, html, 1))

\* lines 334-339: the test of Method 5
LooksLikeConsensus(text) ==
    LET Worded(lower) ==
          /\ \/ Contains(lower, "director")
             \/ Contains(lower, "cinematic")
             \/ Contains(lower, "visually")
             \/ Contains(lower, "narrative")
             \/ Contains(lower, "performance")
             \/ Contains(lower, "ambitious")
          /\ ~Contains(lower, "subconscious")
          /\ ~Contains(lower, "mission")
    IN  Len(text) > MinParagraphLen /\ Len(text) < MaxParagraphLen /\ Worded(Lower(text))

\* lines 330-343: Method 5
RECURSIVE FromParagraphs(_, _)
FromParagraphs(paragraphs, c) ==
    LET Take(text) ==
          IF LooksLikeConsensus(text) THEN Consensus(text, TRUE, "consensus_from_paragraph")
          ELSE FromParagraphs(Tail(paragraphs), c)
    IN  IF paragraphs = <<>> THEN c ELSE Take(get_text(Head(paragraphs)))

\* lines 348-355, applied to an accepted consensus
CleanConsensus(text) ==
    LET Entities(t) ==
          Replace(Replace(Replace(Replace(t, "&nbsp;", " "), "&quot;", Quote),
                          "&#39;", "'"), "&amp;", "&")
        Tags(t) ==
          Entities(IF Contains(t, "class=") \/ Contains(t, "<") \/ Contains(t, ">")
                   THEN Strip(Sub(SpacesRe, " ", Sub(AnyTagRe, " ", t)))
                   ELSE t)
        Prefix(m) == Tags(IF m.ok THEN SubSeq(text, m.end, Len(text)) ELSE text)
    IN  Prefix(SearchFrom(prefix_pattern, Lower(text), text, 1))

\* lines 247-343: [text, found, source], text being consensus_text, found
\* consensus_found and source the key debug_info gets, before the cleanup
FindConsensus(doc, html, low) ==
    LET Method5(c) ==
          IF ~c.found \/ Contains(c.text, "class=")
          THEN FromParagraphs(find_all_p(doc), c) ELSE c
        Method4(c) == Method5(IF c.found THEN c ELSE FromExplicit(html, low, 1, c))
        Method3(c) == Method4(IF c.found THEN c ELSE FromMarkers(html, low, 1, c))
        Method2(c) == Method3(FromSchema(html, c))
    IN  Method2(FromSelectors(doc, 1, Consensus("No consensus yet.", FALSE, "")))

\* lines 345-355, c being what FindConsensus left
ExtractConsensus(c) == IF c.found THEN CleanConsensus(c.text) ELSE c.text

NoDebug == [consensus_found |-> FALSE, source |-> "", candidate |-> ""]

\* get_movie_ratings(movie_url), given the response of requests.get.
\* returned: <<>> is None, <<r>> the record r; debug_info: consensus_found,
\* the consensus_from_... key of debug_info and consensus_text as it was
\* when the cleanup began
get_movie_ratings(movie_url, status, doc) ==
    LET Return(html_content, low, c) ==
          [returned |->
             << [title |-> ExtractTitle(html_content),
                 year |-> ExtractYear(html_content, low),
                 critic_score |-> ExtractCriticScore(html_content, low),
                 audience_score |-> ExtractAudienceScore(html_content, low),
                 consensus |-> ExtractConsensus(c),
                 url |-> movie_url] >>,
           debug_info |->
             [consensus_found |-> c.found, source |-> c.source, candidate |-> c.text]]
        Parsed(html_content, low) ==
          Return(html_content, low, FindConsensus(doc, html_content, low))
        Fetched(html_content) == Parsed(html_content, Lower(html_content))
    IN  IF status # 200 THEN [returned |-> <<>>, debug_info |-> NoDebug]
        ELSE Fetched(HtmlContent(doc))

(***************************************************************************)
(* main: the selection loop                                                *)
(***************************************************************************)
DigitVal ==
    "0" :> 0 @@ "1" :> 1 @@ "2" :> 2 @@ "3" :> 3 @@ "4" :> 4 @@
    "5" :> 5 @@ "6" :> 6 @@ "7" :> 7 @@ "8" :> 8 @@ "9" :> 9

AllDigits(s) == \A i \in 1..Len(s) : Ch(s, i) \in DigitChars

RECURSIVE DigitsValue(_, _)
DigitsValue(s, n) ==
    IF n = 0 THEN 0 ELSE 10 * DigitsValue(s, n - 1) + DigitVal[Ch(s, n)]

\* int(s) for a text of digits, signs, letters and white space: surrounding
\* white space and a sign are accepted; ok is FALSE where int raises
\* ValueError
ParseInt(s) ==
    LET t == Strip(s)
        signed == Len(t) > 0 /\ Ch(t, 1) \in {"+", "-"}
        body == IF signed THEN SubSeq(t, 2, Len(t)) ELSE t
    IN  IF body = "" \/ ~AllDigits(body) THEN [ok |-> FALSE, val |-> 0]
        ELSE [ok |-> TRUE,
              val |-> IF signed /\ Ch(t, 1) = "-" THEN 0 - DigitsValue(body, Len(body))
                      ELSE DigitsValue(body, Len(body))]

\* the loop's condition with its upper end let in
InRangeUpTo(sel, results) == 0 <= sel /\ sel <= Len(results)

\* line 425: the loop's condition
InRange(sel, results) == 0 <= sel /\ sel < Len(results)

(***************************************************************************)
(* The inputs: responses, documents, what the user types                   *)
(***************************************************************************)
MaxItems == 2

MaxFrags == 2

MaxPrompts == 3

MaxParts == 3

\* response.status_code
Statuses == {200, 203, 404}

ClockYears == {2025, 2026}

None == <<>>

Some(x) == <<x>>

Row == "search-page-media-row"

Containers ==
    { \* relative link with a year, no year element
      Container(Row, Some(Some("/m/example_2010")), Some("Example"), None, None, None, ""),
      \* absolute link, year slot
      Container(Row, Some(Some("https://www.rottentomatoes.com/m/jaws")), Some("Jaws"),
                None, Some("1975"), None, ""),
      \* no year anywhere
      Container(Row, Some(Some("/m/up")), Some(" Up "), None, None, None, ""),
      \* an <a> without href
      Container(Row, Some(None), Some("Heat"), None, None, Some("1995"), ""),
      \* no <a> at all, a year in the free text
      Container(Row, None, None, Some("Big"), None, None, "Released 1988"),
      \* empty href, the year only as the title's suffix
      Container(Row, Some(Some("")), Some("Roundhay Garden Scene (1888)"), None, None,
                None, ""),
      \* no title element
      Container(Row, Some(Some("/m/ghost_2010")), None, None, Some("2010"), None, ""),
      \* a title element without text
      Container(Row, Some(Some("/m/blank_2011")), Some(" "), None, None, None, ""),
      \* a year slot without text
      Container(Row, Some(Some("/m/example_2010")), Some("Example"), None, Some(""),
                None, ""),
      \* a year slot that reads N/A
      Container(Row, Some(Some("/m/example_2010")), Some("Example"), None, Some("N/A"),
                None, ""),
      \* both title elements, a year in the free text and in the link
      Container(Row, Some(Some("/m/solaris_2002")), Some("Solaris"), Some("Solyaris"),
                None, None, "Remake of the 1972 film"),
      Container(".findify-components--cards__inner", Some(Some("/m/heat_1995")), None,
                Some("Heat"), None, Some("1995"), ""),
      Container(".findify-components--cards__inner", Some(Some("/m/nine")), None, None,
                None, None, "2009"),
      Container(".js-tile-link", Some(Some("/m/big")), Some("Big"), None, None, None, ""),
      Container(".search__results .poster",
                Some(Some("https://www.rottentomatoes.com/m/up")), None, Some("Up (2009)"),
                None, None, ""),
      Container("none", Some(Some("/m/ad")), Some("Ad"), None, None, None, "") }

\* the sequences of at most n elements of S
SeqsUpTo(S, n) == UNION {[1..k -> S] : k \in 0..n}

Listings == SeqsUpTo(Containers, MaxItems)

TitleVals == {"Jaws", "Up", " "}

ScoreVals == {"91", "150"}

GoodConsensus == "A visually ambitious and thrilling ride."

PlainConsensus == "Smart, funny and warm from start to finish."

ShortConsensus == "Good fun."

PlotConsensus == "A director leads his crew on a mission to Mars."

TaggedConsensus == "<em>Bold</em> and <em>visually</em> ambitious."

MarkupConsensus == "<b class=x>Bold</b> and visually ambitious."

TwentyConsensus == "Twenty chars long ok"

DetailFrags ==
    {Frag("og_title", v) : v \in TitleVals \cup {"Unknown Title"}}
    \cup {Frag("ld_movie", v) : v \in TitleVals}
    \cup {Frag("title_tag", v) : v \in {"Jaws", "Up"}}
    \cup {Frag("ld_rating", v) : v \in ScoreVals \cup {"7"}}
    \cup {Frag("js_tomatometer", v) : v \in ScoreVals}
    \cup {Frag("qa_tomatometer", v) : v \in ScoreVals}
    \cup {Frag("ld_audience", v) : v \in ScoreVals \cup {"8"}}
    \cup {Frag("score_board", v) : v \in ScoreVals}
    \cup {Frag("popcorn", v) : v \in ScoreVals}
    \cup {Frag("aud_text", v) : v \in ScoreVals}
    \cup {Frag("ld_date", v) : v \in {"1975", "2050", "1492"}}
    \cup {Frag("release_info", v) : v \in {"2010", "2050"}}
    \cup {Frag("film_info", v) : v \in {"1999"}}
    \cup {Frag("copyright", v) : v \in {"2024"}}
    \cup {Frag("qa_span", v) :
            v \in {GoodConsensus, PlainConsensus, ShortConsensus, TaggedConsensus}}
    \cup {Frag("p_consensus", v) : v \in {GoodConsensus, PlainConsensus, ShortConsensus}}
    \cup {Frag("ld_review", v) :
            v \in {GoodConsensus, PlainConsensus, MarkupConsensus, TwentyConsensus}}
    \cup {Frag("div_box", v) : v \in {GoodConsensus, PlainConsensus, ShortConsensus}}
    \cup {Frag("p_plain", v) :
            v \in {GoodConsensus, PlotConsensus, PlainConsensus,
                   "Critics Consensus: " \o PlainConsensus,
                   "Critics Consensus: " \o ShortConsensus}}

Details == SeqsUpTo(DetailFrags, MaxFrags)

\* what main is run on
MainListings ==
    SeqsUpTo({c \in Containers :
                 /\ c.sel = Row
                 /\ c.slot_year = None
                 /\ c.extra = ""
                 /\ c.slot_title \in {Some("Example"), Some(" Up "), Some("Heat")}},
             MaxItems)

MaxMatches == 3

\* listings of containers of every pattern: one with a title for each
\* pattern, one without title, one no pattern matches
PatternListings ==
    SeqsUpTo({c \in Containers :
                 c.anchor \in {Some(Some("/m/up")), Some(Some("/m/heat_1995")),
                               Some(Some("/m/nine")), Some(Some("/m/big")),
                               Some(Some("https://www.rottentomatoes.com/m/up")),
                               Some(Some("/m/ad"))}},
             MaxMatches)

MainDetails == {<<>>, <<Frag("ld_rating", "91")>>}

\* what input() returns
Inputs == {"0", "1", "2", "3", "9", "-1", "+1", " 2 ", "abc", ""}

Atoms ==
    {"a", " ", "&amp;", "amp;", "&nbsp;", "&quot;", "&#39;", "<b>", "<", ">",
     "class=", "Critics Consensus: "}

RECURSIVE Concat(_)
Concat(parts) == IF parts = <<>> THEN "" ELSE Head(parts) \o Concat(Tail(parts))

Texts == {Concat(parts) : parts \in SeqsUpTo(Atoms, MaxParts)}

(***************************************************************************)
(* The program: main                                                       *)
(***************************************************************************)
Init ==
    /\ pc = "start"
    /\ current_year \in ClockYears
    /\ status_code = 0
    /\ listing = <<>>
    /\ search_results = <<>>
    /\ extracted = FALSE
    /\ last_input = ""
    /\ prompts = 0
    /\ selection = -1
    /\ fetched = <<>>
    /\ detail = <<>>
    /\ movie_details = None
    /\ debug_info = NoDebug
    /\ norm_in = ""
    /\ norm_out = ""

\* search_movie on the response (status, doc); lines 412-416 follow it
SearchStep(status, doc) ==
    /\ status_code' = status
    /\ listing' = doc
    /\ extracted' = (status = 200)
    /\ search_results' = search_movie(status, doc)

\* lines 412-416 and 424
MainSearch ==
    /\ pc = "start"
    /\ \E status \in Statuses, doc \in MainListings : SearchStep(status, doc)
    /\ pc' = IF search_results' = <<>> THEN "done" ELSE "prompt"
    /\ selection' = -1
    /\ UNCHANGED <<current_year, last_input, prompts, fetched, detail, movie_details,
                   debug_info, norm_in, norm_out>>

\* lines 425-432: one pass of the selection loop
Prompt ==
    /\ pc = "prompt"
    /\ prompts < MaxPrompts
    /\ \E text \in Inputs :
         LET Loop(sel, quit) ==
               /\ selection' = sel
               /\ pc' = IF quit THEN "done"
                        ELSE IF InRange(sel, search_results) THEN "fetch"
                        ELSE "prompt"
             Read(n) == Loop(IF n.ok THEN n.val - 1 ELSE selection, n.ok /\ n.val = 0)
         IN  last_input' = text /\ Read(ParseInt(text))
    /\ prompts' = prompts + 1
    /\ UNCHANGED <<current_year, status_code, listing, search_results, extracted,
                   fetched, detail, movie_details,
                   debug_info, norm_in, norm_out>>

\* get_movie_ratings on the response (status, doc)
RatingsStep(movie_url, status, doc) ==
    /\ status_code' = status
    /\ detail' = doc
    /\ extracted' = (status = 200)
    /\ fetched' = Append(fetched, movie_url)
    /\ LET Keep(r) == movie_details' = r.returned /\ debug_info' = r.debug_info
       IN  Keep(get_movie_ratings(movie_url, status, doc))

\* lines 434-442.  requests.get raises MissingSchema on a url without
\* scheme, which main does not catch: the run ends in the call
MainFetch ==
    /\ pc = "fetch"
    /\ \/ /\ search_results[selection + 1].url # ""
          /\ \E status \in Statuses, doc \in MainDetails :
               RatingsStep(search_results[selection + 1].url, status, doc)
          /\ pc' = "done"
       \/ /\ search_results[selection + 1].url = ""
          /\ fetched' = Append(fetched, "")
          /\ pc' = "raised"
          /\ UNCHANGED <<status_code, detail, extracted, movie_details, debug_info>>
    /\ UNCHANGED <<current_year, listing, search_results, last_input, prompts,
                   selection, norm_in, norm_out>>

Next == MainSearch \/ Prompt \/ MainFetch

Spec == Init /\ [][Next]_vars

(***************************************************************************)
(* search_movie called on its own                                          *)
(***************************************************************************)
InitSearch ==
    /\ pc = "search"
    /\ current_year \in ClockYears
    /\ status_code = 0
    /\ listing = <<>>
    /\ search_results = <<>>
    /\ extracted = FALSE
    /\ last_input = ""
    /\ prompts = 0
    /\ selection = -1
    /\ fetched = <<>>
    /\ detail = <<>>
    /\ movie_details = None
    /\ debug_info = NoDebug
    /\ norm_in = ""
    /\ norm_out = ""

CallSearch ==
    /\ pc = "search"
    /\ \E status \in Statuses, doc \in Listings : SearchStep(status, doc)
    /\ pc' = "searched"
    /\ UNCHANGED <<current_year, last_input, prompts, selection, fetched, detail,
                   movie_details, debug_info, norm_in, norm_out>>

NextSearch == CallSearch

SpecSearch == InitSearch /\ [][NextSearch]_vars

(***************************************************************************)
(* get_movie_ratings called on its own                                     *)
(***************************************************************************)
DetailUrl == "https://www.rottentomatoes.com/m/jaws"

InitRatings ==
    /\ pc = "ratings"
    /\ current_year \in ClockYears
    /\ status_code = 0
    /\ listing = <<>>
    /\ search_results = <<>>
    /\ extracted = FALSE
    /\ last_input = ""
    /\ prompts = 0
    /\ selection = -1
    /\ fetched = <<>>
    /\ detail = <<>>
    /\ movie_details = None
    /\ debug_info = NoDebug
    /\ norm_in = ""
    /\ norm_out = ""

CallRatings ==
    /\ pc = "ratings"
    /\ \E status \in Statuses, doc \in Details : RatingsStep(DetailUrl, status, doc)
    /\ pc' = "rated"
    /\ UNCHANGED <<current_year, listing, search_results, last_input, prompts,
                   selection, norm_in, norm_out>>

NextRatings == CallRatings

SpecRatings == InitRatings /\ [][NextRatings]_vars

(***************************************************************************)
(* The consensus cleanup applied on its own, and again to its result       *)
(***************************************************************************)
InitClean ==
    /\ pc = "clean"
    /\ current_year \in ClockYears
    /\ status_code = 0
    /\ listing = <<>>
    /\ search_results = <<>>
    /\ extracted = FALSE
    /\ last_input = ""
    /\ prompts = 0
    /\ selection = -1
    /\ fetched = <<>>
    /\ detail = <<>>
    /\ movie_details = None
    /\ debug_info = NoDebug
    /\ norm_in \in Texts
    /\ norm_out = ""

Clean ==
    /\ pc \in {"clean", "cleaned"}
    /\ norm_out' = CleanConsensus(IF pc = "clean" THEN norm_in ELSE norm_out)
    /\ pc' = IF pc = "clean" THEN "cleaned" ELSE "cleaned twice"
    /\ UNCHANGED <<current_year, status_code, listing, search_results, extracted,
                   last_input, prompts, selection, fetched, detail, movie_details,
                   debug_info, norm_in>>

NextClean == Clean

SpecClean == InitClean /\ [][NextClean]_vars

(***************************************************************************)
(* search_movie called on listings that mix the container patterns         *)
(***************************************************************************)
CallPatterns ==
    /\ pc = "search"
    /\ \E status \in Statuses, doc \in PatternListings : SearchStep(status, doc)
    /\ pc' = "searched"
    /\ UNCHANGED <<current_year, last_input, prompts, selection, fetched, detail,
                   movie_details, debug_info, norm_in, norm_out>>

NextPatterns == CallPatterns

SpecPatterns == InitSearch /\ [][NextPatterns]_vars

(***************************************************************************)
(* The properties                                                          *)
(***************************************************************************)
Sentinel(field) ==
    CASE field = "title" -> "Unknown Title"
      [] field = "consensus" -> "No consensus yet."
      [] OTHER -> "N/A"

CentOrLess(s) == Len(s) \in 1..3 /\ AllDigits(s) /\ DigitsValue(s, Len(s)) <= 100

FourDigits(s) == Len(s) = 4 /\ AllDigits(s)

HasMarkup(s) == Contains(s, "class=") \/ Contains(s, "<") \/ Contains(s, ">")

\* the rule a value of the field has to pass
Valid(field, v) ==
    CASE field = "title" -> Strip(v) # ""
      [] field = "year" ->
           /\ FourDigits(v)
           /\ 1888 <= DigitsValue(v, 4)
           /\ DigitsValue(v, 4) <= current_year + 2
      [] field \in {"critic_score", "audience_score"} -> CentOrLess(v)
      [] field = "consensus" -> Len(v) > 20 /\ Len(v) < 1000 /\ ~HasMarkup(v)

Fields == {"title", "year", "critic_score", "audience_score", "consensus"}

Returned == pc = "rated" /\ movie_details # None

\* C1: every field of the record get_movie_ratings returns for a fetched
\* document passes the rule of its field or is the sentinel of its field
C1_FieldsValidOrSentinel ==
    Returned =>
      \A field \in Fields :
         \/ movie_details[1][field] = Sentinel(field)
         \/ Valid(field, movie_details[1][field])

\* the field a fragment of the document is a signal for
SignalField(f) ==
    CASE f.kind \in {"og_title", "ld_movie", "title_tag"} -> "title"
      [] f.kind \in {"ld_rating", "js_tomatometer", "qa_tomatometer"} -> "critic_score"
      [] f.kind \in {"ld_audience", "score_board", "popcorn", "aud_text"} ->
           "audience_score"
      [] f.kind \in {"ld_date", "release_info", "film_info", "copyright"} -> "year"
      [] OTHER -> "consensus"

\* its trust: 1 structured or schema-embedded data, 2 a dedicated region
\* of the markup, 3 free text scanned for key words
SignalTrust(f) ==
    CASE f.kind \in {"og_title", "ld_movie", "ld_rating", "js_tomatometer",
                     "ld_audience", "ld_date", "ld_review"} -> 1
      [] f.kind \in {"title_tag", "qa_tomatometer", "score_board", "popcorn",
                     "qa_span", "p_consensus", "div_box"} -> 2
      [] OTHER -> 3

\* the value it carries
SignalValue(f) ==
    IF f.kind = "p_plain" /\ StartsWith(f.val, "Critics Consensus: ")
    THEN SubSeq(f.val, Len("Critics Consensus: ") + 1, Len(f.val))
    ELSE f.val

\* C2: when the document carries valid signals for one field at two levels
\* of trust, the record holds the value of the more trusted one
C2_HigherTrustWins ==
    Returned =>
      \A i, j \in 1..Len(detail) :
         (/\ SignalField(detail[i]) = SignalField(detail[j])
          /\ SignalTrust(detail[i]) < SignalTrust(detail[j])
          /\ Valid(SignalField(detail[i]), SignalValue(detail[i]))
          /\ Valid(SignalField(detail[j]), SignalValue(detail[j])))
         => movie_details[1][SignalField(detail[i])] = SignalValue(detail[i])

\* C3: a field none of whose strategies accepted a candidate is exactly its
\* sentinel: the consensus when consensus_found stayed False, the year and
\* the scores when the document holds nothing
C3_ExhaustedChainGivesSentinel ==
    Returned =>
      /\ ~debug_info.consensus_found => movie_details[1].consensus = Sentinel("consensus")
      /\ detail = <<>> =>
           \A field \in {"year", "critic_score", "audience_score"} :
              movie_details[1][field] = Sentinel(field)

IsAbsolute(url) == StartsWith(url, "http://") \/ StartsWith(url, "https://")

\* C4: every record search_movie emits has a non-empty absolute url
C4_UrlsAbsolute ==
    pc = "searched" =>
      \A i \in 1..Len(search_results) : IsAbsolute(search_results[i].url)

Is2xx(status) == 200 <= status /\ status < 300

SearchReturned == pc \in {"prompt", "done"} /\ fetched = <<>> /\ prompts = 0

RatingsReturned == pc = "done" /\ fetched # <<>>

\* C5: on a status outside 2xx neither function extracts and each returns
\* something other than what it returns for a fetched document that yields
\* nothing; on a 2xx status they extract
C5_FailureIsExplicit ==
    /\ SearchReturned =>
         IF Is2xx(status_code) THEN extracted
         ELSE ~extracted /\ search_results # search_movie(200, <<>>)
    /\ RatingsReturned =>
         IF Is2xx(status_code) THEN extracted
         ELSE ~extracted /\ movie_details # get_movie_ratings(fetched[1], 200, <<>>).returned

\* what the last input asks for: a number of the list, 0, or nothing valid
Asked ==
    LET n == ParseInt(last_input) IN
    IF ~n.ok THEN "again"
    ELSE IF n.val = 0 THEN "quit"
    ELSE IF 1 <= n.val /\ n.val <= Len(search_results) THEN "pick"
    ELSE "again"

\* C6: with results listed, main prompts again after every input that is
\* not a number or is out of range, ends without a fetch on 0, and on k in
\* 1..N calls get_movie_ratings once, with the url of the k-th result; with
\* no results it neither prompts nor fetches
C6_SelectionLoop ==
    /\ Len(fetched) <= 1
    /\ search_results = <<>> => prompts = 0 /\ fetched = <<>>
    /\ prompts > 0 =>
         CASE Asked = "again" -> pc = "prompt" /\ fetched = <<>>
           [] Asked = "quit" -> pc = "done" /\ fetched = <<>>
           [] Asked = "pick" ->
                /\ pc \in {"fetch", "done", "raised"}
                /\ selection = ParseInt(last_input).val - 1
                /\ fetched = IF pc = "fetch" THEN <<>>
                             ELSE <<search_results[ParseInt(last_input).val].url>>
    /\ prompts = 0 => fetched = <<>> /\ pc \in {"start", "prompt", "done"}

\* two inputs refused, then the second of two results picked and fetched
C6_Witness ==
    /\ pc = "done"
    /\ prompts = 3
    /\ Len(search_results) = 2
    /\ Asked = "pick"
    /\ search_results[1].url # search_results[2].url
    /\ fetched = <<search_results[2].url>>

HasEntity(text) ==
    \E e \in {"&nbsp;", "&quot;", "&#39;", "&amp;"} : Contains(text, e)

HasTag(text) == Search(AnyTagRe, text).ok

\* C7: the cleanup of the consensus changes nothing when applied to its own
\* result, which holds none of the four entities, no tag and no run of
\* white space
C7_CleanupIdempotent ==
    /\ pc = "cleaned twice" => norm_out = CleanConsensus(norm_in)
    /\ pc = "cleaned" =>
         /\ ~HasEntity(norm_out)
         /\ ~HasTag(norm_out)
         /\ ~Contains(norm_out, "  ")

\* C8: the candidate get_movie_ratings accepts as the consensus is free of
\* markup and longer than 20 and shorter than 1000 characters as it stands,
\* before any cleanup
C8_AcceptedConsensusIsClean ==
    (Returned /\ debug_info.consensus_found) => Valid("consensus", debug_info.candidate)

YieldsTitle(item) == TitleElem(item) # None /\ Strip(TitleElem(item)[1]) # ""

HasTitleElem(item) == TitleElem(item) # None

\* the first of the four sources of a container that yields a year
FirstYear(item) ==
    LET slot == IF YearElem(item) # None THEN Strip(YearElem(item)[1]) ELSE ""
        in_markup == Search(ItemYearRe, ItemHtml(item))
        in_url == Search(UrlYearRe, ItemUrl(item))
        in_title == Search(TitleYearRe, Strip(TitleElem(item)[1]))
    IN  IF FourDigits(slot) THEN slot
        ELSE IF in_markup.ok THEN in_markup.g1
        ELSE IF in_url.ok THEN in_url.g1
        ELSE IF in_title.ok THEN in_title.g1
        ELSE "N/A"

\* C9: the year of every record search_movie emits is what the first of the
\* year element, the container's markup, the url and the title's suffix to
\* yield a year yields, and N/A when none does
C9_YearFromFirstSource ==
    (pc = "searched" /\ extracted) =>
      LET items == SelectSeq(MovieItems(listing), HasTitleElem) IN
      /\ Len(search_results) = Len(items)
      /\ \A i \in 1..Len(items) : search_results[i].year = FirstYear(items[i])

\* C10: search_movie returns one record, in order, for each container that
\* yields a title, the records it returns without the other containers,
\* and every record has a title that is not empty
C10_TitlelessSkipped ==
    (pc = "searched" /\ extracted) =>
      /\ search_results = ForItems(SelectSeq(MovieItems(listing), YieldsTitle))
      /\ \A i \in 1..Len(search_results) : search_results[i].title # ""

PatternOrder ==
    <<"search-page-media-row", ".findify-components--cards__inner", ".js-tile-link",
      ".search__results .poster">>

\* C11: search_movie returns the records of the containers of the first
\* pattern, in the order of the patterns, that matches a container, and of
\* no other container, however many a later pattern matches; it returns
\* the empty list when no pattern matches
C11_FirstPatternOnly ==
    (pc = "searched" /\ extracted) =>
      /\ \A k \in 1..Len(PatternOrder) :
            (/\ Select(listing, PatternOrder[k]) # <<>>
             /\ \A j \in 1..(k - 1) : Select(listing, PatternOrder[j]) = <<>>)
            => search_results = ForItems(Select(listing, PatternOrder[k]))
      /\ (\A k \in 1..Len(PatternOrder) : Select(listing, PatternOrder[k]) = <<>>)
            => search_results = <<>>

\* the second pattern matches one container and the third two: the one
\* record returned is that of the second pattern's container
C11_Witness ==
    /\ pc = "searched"
    /\ extracted
    /\ Select(listing, PatternOrder[1]) = <<>>
    /\ Len(Select(listing, PatternOrder[2])) = 1
    /\ Len(Select(listing, PatternOrder[3])) = 2
    /\ Len(search_results) = 1
    /\ search_results = ForItems(Select(listing, PatternOrder[2]))
====
